---- MODULE Spec2Model ----
(***************************************************************************)
(* WWMI VG Fixer (v1.0.0 and v1.1.0): the two operators "Auto Fix Vertex   *)
(* Groups" and "Remove Check Prefix" as a state machine over the selected  *)
(* objects of a scene.                                                     *)
(*                                                                         *)
(* Strings are sequences of one-character strings, so that int(), str(),   *)
(* startswith() and the two regular expressions are computed character by  *)
(* character.  The alphabet is the printable ASCII characters that occur   *)
(* in the names below; Python's int() and \d also accept non-ASCII digits, *)
(* and "$" also matches before a final line feed: those characters are     *)
(* outside the alphabet.                                                   *)
(***************************************************************************)
EXTENDS Integers, Sequences, FiniteSets, TLC

VARIABLES version, metadata, remove_zero, objects, log

vars == <<version, metadata, remove_zero, objects, log>>

(***************************************************************************)
(* Bounds of the model.                                                    *)
(***************************************************************************)
MaxOps == 2
MaxBank == 2
MaxGroups == 2
MaxComponents == 4
MaxVertices == 1
MaxObjects == 2
MaxMetaComponents == 2

(***************************************************************************)
(* Program constants.                                                      *)
(***************************************************************************)
MergeOffset == 256
CheckLimit == 256
GlobalFrom == 3

(***************************************************************************)
(* Characters and strings.                                                 *)
(***************************************************************************)
DigitChars == <<"0", "1", "2", "3", "4", "5", "6", "7", "8", "9">>

Digit == {DigitChars[i] : i \in 1..10}

DigitValue(c) == CHOOSE i \in 0..9 : DigitChars[i + 1] = c

IsSpace(c) == c = " "

CheckStr == <<"C", "h", "e", "c", "k">>

ComponentStr == <<"C", "o", "m", "p", "o", "n", "e", "n", "t">>

RECURSIVE NatStr(_)
NatStr(n) ==
    IF n < 10 THEN <<DigitChars[n + 1]>>
    ELSE NatStr(n \div 10) \o <<DigitChars[(n % 10) + 1]>>

\* str(n) of a Python int
Str(n) == IF n < 0 THEN <<"-">> \o NatStr(-n) ELSE NatStr(n)

\* s.startswith(p)
StartsWith(s, p) == Len(s) >= Len(p) /\ SubSeq(s, 1, Len(p)) = p

RECURSIVE LStrip(_)
LStrip(s) == IF s # <<>> /\ IsSpace(Head(s)) THEN LStrip(Tail(s)) ELSE s

RECURSIVE RStrip(_)
RStrip(s) ==
    IF s # <<>> /\ IsSpace(s[Len(s)]) THEN RStrip(SubSeq(s, 1, Len(s) - 1)) ELSE s

\* the text int() reads after dropping surrounding white space and the sign
IntBody(s) ==
    LET t == RStrip(LStrip(s))
    IN  IF t # <<>> /\ Head(t) \in {"+", "-"} THEN Tail(t) ELSE t

\* int(s) does not raise ValueError: digits, single underscores between them
IsIntLiteral(s) ==
    LET b == IntBody(s)
    IN  /\ b # <<>>
        /\ \A i \in 1..Len(b) : b[i] \in Digit \cup {"_"}
        /\ b[1] \in Digit
        /\ b[Len(b)] \in Digit
        /\ \A i \in 1..(Len(b) - 1) : ~(b[i] = "_" /\ b[i + 1] = "_")

RECURSIVE DigitsValue(_, _)
DigitsValue(b, acc) ==
    IF b = <<>> THEN acc
    ELSE IF Head(b) = "_" THEN DigitsValue(Tail(b), acc)
    ELSE DigitsValue(Tail(b), 10 * acc + DigitValue(Head(b)))

\* int(s), for s with IsIntLiteral(s)
IntValue(s) ==
    LET t == RStrip(LStrip(s))
        v == DigitsValue(IntBody(s), 0)
    IN  IF Head(t) = "-" THEN 0 - v ELSE v

\* re.compile(r"^Check(\d+)$").match(s)
CheckMatch(s) ==
    /\ Len(s) > Len(CheckStr)
    /\ SubSeq(s, 1, Len(CheckStr)) = CheckStr
    /\ \A i \in (Len(CheckStr) + 1)..Len(s) : s[i] \in Digit

\* match.group(1) of CheckMatch
CheckGroup(s) == SubSeq(s, Len(CheckStr) + 1, Len(s))

\* the end of the longest run of characters in S that starts at position i
RECURSIVE RunEnd(_, _, _)
RunEnd(s, i, S) == IF i <= Len(s) /\ s[i] \in S THEN RunEnd(s, i + 1, S) ELSE i

\* re.compile(r"Component\s*(\d+)") matches s at position i
ComponentMatchAt(s, i) ==
    /\ i + Len(ComponentStr) - 1 <= Len(s)
    /\ SubSeq(s, i, i + Len(ComponentStr) - 1) = ComponentStr
    /\ LET d == RunEnd(s, i + Len(ComponentStr), {" "})
       IN  d <= Len(s) /\ s[d] \in Digit

\* comp_name_pattern.search(name) finds a match
ComponentSearch(s) == \E i \in 1..Len(s) : ComponentMatchAt(s, i)

\* int(m.group(1)) of the first match
ComponentId(s) ==
    LET i == CHOOSE k \in 1..Len(s) :
                 ComponentMatchAt(s, k) /\ \A j \in 1..(k - 1) : ~ComponentMatchAt(s, j)
        d == RunEnd(s, i + Len(ComponentStr), {" "})
        e == RunEnd(s, d, Digit)
    IN  DigitsValue(SubSeq(s, d, e - 1), 0)

(***************************************************************************)
(* Host objects.  An object is [type, name, vertex_groups, vertices]:      *)
(* vertex_groups is the ordered list of [name, ref] (ref is the identity   *)
(* of the VertexGroup a Python reference denotes; vg.index is its position *)
(* counted from 0), vertices is the list of each vertex's memberships      *)
(* [group, weight], group being a vertex-group index.                      *)
(***************************************************************************)
SetMax(S) == CHOOSE x \in S : \A y \in S : y <= x

\* the inner loops of the scan: some vertex lists the group at position p
Used(obj, p) ==
    \E v \in 1..Len(obj.vertices) : \E g \in obj.vertices[v] : g.group = p - 1

\* the first loop: the references of the groups no vertex lists, in order
RECURSIVE ScanFrom(_, _)
ScanFrom(obj, p) ==
    IF p > Len(obj.vertex_groups) THEN <<>>
    ELSE (IF Used(obj, p) THEN <<>> ELSE <<obj.vertex_groups[p].ref>>)
         \o ScanFrom(obj, p + 1)

\* obj.vertex_groups.remove(vg): the later groups' indices move down by one
RemoveVG(obj, ref) ==
    LET p == CHOOSE k \in 1..Len(obj.vertex_groups) : obj.vertex_groups[k].ref = ref
    IN  [obj EXCEPT
           !.vertex_groups =
               SubSeq(obj.vertex_groups, 1, p - 1)
               \o SubSeq(obj.vertex_groups, p + 1, Len(obj.vertex_groups)),
           !.vertices =
               [v \in 1..Len(obj.vertices) |->
                   {IF g.group > p - 1 THEN [g EXCEPT !.group = @ - 1] ELSE g :
                        g \in {h \in obj.vertices[v] : h.group # p - 1}}]]

\* the second loop: remove every collected group
RECURSIVE RemoveAll(_, _)
RemoveAll(obj, refs) ==
    IF refs = <<>> THEN obj ELSE RemoveAll(RemoveVG(obj, Head(refs)), Tail(refs))

\* a sweep that removes a group as soon as the scan finds it unused, the
\* iteration then moving on to the next position of the shortened list
RECURSIVE EagerFrom(_, _)
EagerFrom(obj, p) ==
    IF p > Len(obj.vertex_groups) THEN obj
    ELSE IF Used(obj, p) THEN EagerFrom(obj, p + 1)
    ELSE EagerFrom(RemoveVG(obj, obj.vertex_groups[p].ref), p + 1)

remove_eagerly(obj) == EagerFrom(obj, 1)

remove_zero_weight_vgroups(obj) == RemoveAll(obj, ScanFrom(obj, 1))

(***************************************************************************)
(* Auto Fix.  The metadata is [path_set, is_file, json, has_components,    *)
(* components]: json is "malformed" (json.load raises), "array" (a JSON    *)
(* document that is not an object) or "object"; a component is             *)
(* [has_vg_map, vg_map], vg_map being the set of the mapping's values.     *)
(***************************************************************************)
AllValues(components) ==
    UNION {components[i].vg_map : i \in 1..Len(components)}

\* components is falsy: the key is absent, or the list is empty
NoComponents(md) == ~md.has_components \/ md.components = <<>>

\* max(v for comp in components for v in comp["vg_map"].values()) raises
MaxRaises(components) ==
    \/ \E i \in 1..Len(components) : ~components[i].has_vg_map
    \/ AllValues(components) = {}

\* the statements of execute before the loop: "OK", or how the run ends
LoadV100(md) ==
    IF ~md.path_set THEN "CANCELLED"
    ELSE IF ~md.is_file THEN "CANCELLED"
    ELSE IF md.json = "malformed" THEN "CANCELLED"
    ELSE IF md.json = "array" THEN "RAISED"
    ELSE IF NoComponents(md) THEN "CANCELLED"
    ELSE IF MaxRaises(md.components) THEN "CANCELLED"
    ELSE "OK"

LoadV110(md) ==
    IF ~md.path_set \/ ~md.is_file THEN "CANCELLED"
    ELSE IF md.json = "malformed" THEN "RAISED"
    ELSE IF md.json = "array" THEN "RAISED"
    ELSE IF NoComponents(md) THEN "CANCELLED"
    ELSE IF MaxRaises(md.components) THEN "RAISED"
    ELSE "OK"

Load(ver, md) == IF ver = "v1.0.0" THEN LoadV100(md) ELSE LoadV110(md)

\* a maximum taken over the first component alone
merged_max_first(components) == SetMax(components[1].vg_map)

merged_max_vg(components) == SetMax(AllValues(components))

threshold(components) == merged_max_vg(components) - MergeOffset

\* v1.1.0: the values of every component at position >= 3
global_exception_vgs(components) ==
    UNION {components[i].vg_map :
               i \in {k \in 1..Len(components) : k - 1 >= GlobalFrom}}

\* an exception test that leaves out the global set
IsExceptionLocalOnly(ver, vg_num, local, global) == vg_num \in local

\* the condition of the exception branch
IsException(ver, vg_num, local, global) ==
    IF ver = "v1.0.0" THEN vg_num \in local
    ELSE vg_num \in global \/ vg_num \in local

\* a loop body that tests the exception sets before the threshold
FixNameExceptionFirst(ver, original_name, thr, local, global, component_max_vg) ==
    IF ~IsIntLiteral(original_name) THEN original_name
    ELSE LET vg_num == IntValue(original_name)
         IN  IF IsException(ver, vg_num, local, global)
             THEN IF component_max_vg >= CheckLimit
                       /\ ~StartsWith(original_name, CheckStr)
                  THEN CheckStr \o original_name
                  ELSE original_name
             ELSE IF vg_num > thr THEN original_name
             ELSE Str(vg_num + MergeOffset)

\* a loop body that marks an exception group whatever the component's maximum
FixNameAlwaysMark(ver, original_name, thr, local, global, component_max_vg) ==
    IF ~IsIntLiteral(original_name) THEN original_name
    ELSE LET vg_num == IntValue(original_name)
         IN  IF vg_num > thr THEN original_name
             ELSE IF IsException(ver, vg_num, local, global)
                  THEN IF ~StartsWith(original_name, CheckStr)
                       THEN CheckStr \o original_name
                       ELSE original_name
                  ELSE Str(vg_num + MergeOffset)

\* a loop body that keeps a group whose number equals the threshold
FixNameStrict(ver, original_name, thr, local, global, component_max_vg) ==
    IF ~IsIntLiteral(original_name) THEN original_name
    ELSE LET vg_num == IntValue(original_name)
         IN  IF vg_num >= thr THEN original_name
             ELSE IF IsException(ver, vg_num, local, global)
                  THEN IF component_max_vg >= CheckLimit
                            /\ ~StartsWith(original_name, CheckStr)
                       THEN CheckStr \o original_name
                       ELSE original_name
                  ELSE Str(vg_num + MergeOffset)

\* the body of the loop over obj.vertex_groups: the name the group ends with
FixName(ver, original_name, thr, local, global, component_max_vg) ==
    IF ~IsIntLiteral(original_name) THEN original_name
    ELSE LET vg_num == IntValue(original_name)
         IN  IF vg_num > thr THEN original_name
             ELSE IF IsException(ver, vg_num, local, global)
                  THEN IF component_max_vg >= CheckLimit
                       THEN IF ~StartsWith(original_name, CheckStr)
                            THEN CheckStr \o original_name
                            ELSE original_name
                       ELSE original_name
                  ELSE Str(vg_num + MergeOffset)

\* what the loop does with one selected object:
\* "other" (not a mesh), "skip", "raise" or "fix"
ObjectCase(ver, obj, components) ==
    IF obj.type # "MESH" THEN "other"
    ELSE IF ~ComponentSearch(obj.name) THEN "skip"
    ELSE IF ComponentId(obj.name) >= Len(components) THEN "skip"
    ELSE IF components[ComponentId(obj.name) + 1].vg_map = {}
         THEN (IF ver = "v1.0.0" THEN "skip" ELSE "raise")
    ELSE "fix"

\* one object through the rename loop and the optional sweep
FixObject(ver, obj, components, rz) ==
    LET local   == components[ComponentId(obj.name) + 1].vg_map
        renamed ==
            [obj EXCEPT !.vertex_groups =
                [p \in 1..Len(obj.vertex_groups) |->
                    [obj.vertex_groups[p] EXCEPT !.name =
                        FixName(ver, @, threshold(components), local,
                                global_exception_vgs(components), SetMax(local))]]]
    IN  IF rz THEN remove_zero_weight_vgroups(renamed) ELSE renamed

\* the loop over context.selected_objects from position i on
RECURSIVE FixLoop(_, _, _, _, _, _)
FixLoop(ver, components, rz, objs, i, processed) ==
    IF i > Len(objs)
    THEN [status |-> "FINISHED", report |-> "INFO", objects |-> objs,
          processed |-> processed]
    ELSE LET c == ObjectCase(ver, objs[i], components)
         IN  IF c = "raise"
             THEN [status |-> "RAISED", report |-> "NONE", objects |-> objs,
                   processed |-> processed]
             ELSE IF c = "fix"
             THEN FixLoop(ver, components, rz,
                          [objs EXCEPT ![i] = FixObject(ver, @, components, rz)],
                          i + 1, processed \cup {i})
             ELSE FixLoop(ver, components, rz, objs, i + 1, processed)

\* WWMI_OT_auto_fix_vgs.execute
auto_fix_execute(ver, md, rz, objs) ==
    LET l == Load(ver, md)
    IN  IF l = "CANCELLED"
        THEN [status |-> "CANCELLED", report |-> "ERROR", objects |-> objs,
              processed |-> {}]
        ELSE IF l = "RAISED"
        THEN [status |-> "RAISED", report |-> "NONE", objects |-> objs,
              processed |-> {}]
        ELSE FixLoop(ver, md.components, rz, objs, 1, {})

(***************************************************************************)
(* Remove Check Prefix.                                                    *)
(***************************************************************************)
\* a strip that drops any leading "Check"
StripAnyCheck(name) ==
    IF StartsWith(name, CheckStr) THEN CheckGroup(name) ELSE name

\* the body of the loop over obj.vertex_groups
StripName(name) == IF CheckMatch(name) THEN CheckGroup(name) ELSE name

\* changed, at the end of the loop over obj.vertex_groups
Changed(obj) ==
    \E p \in 1..Len(obj.vertex_groups) : CheckMatch(obj.vertex_groups[p].name)

\* WWMI_OT_remove_check_prefix.execute
remove_check_execute(objs) ==
    [status |-> "FINISHED", report |-> "INFO",
     objects |->
         [i \in 1..Len(objs) |->
             IF objs[i].type # "MESH" THEN objs[i]
             ELSE [objs[i] EXCEPT !.vertex_groups =
                      [p \in 1..Len(objs[i].vertex_groups) |->
                          [objs[i].vertex_groups[p] EXCEPT !.name = StripName(@)]]]],
     processed |-> {i \in 1..Len(objs) : objs[i].type = "MESH" /\ Changed(objs[i])}]

(***************************************************************************)
(* The operators as actions.  log records, for each invocation, the        *)
(* operator, its outcome (status: FINISHED, CANCELLED, or RAISED for an    *)
(* exception that leaves execute), the level of its self.report call, the  *)
(* count it reports (the number of objects in processed) and the objects   *)
(* as they were before it ran.                                             *)
(***************************************************************************)
Entry(op, r) ==
    [op |-> op, status |-> r.status, report |-> r.report,
     count |-> Cardinality(r.processed), processed |-> r.processed,
     before |-> objects]

AutoFix ==
    /\ Len(log) < MaxOps
    /\ LET r == auto_fix_execute(version, metadata, remove_zero, objects)
       IN  /\ objects' = r.objects
           /\ log' = Append(log, Entry("auto_fix", r))
    /\ UNCHANGED <<version, metadata, remove_zero>>

RemoveCheckPrefix ==
    /\ Len(log) < MaxOps
    /\ LET r == remove_check_execute(objects)
       IN  /\ objects' = r.objects
           /\ log' = Append(log, Entry("remove_check", r))
    /\ UNCHANGED <<version, metadata, remove_zero>>

Next == AutoFix \/ RemoveCheckPrefix

(***************************************************************************)
(* Inputs.  Vertex-group indices are 1 + 256 k; names are their decimal    *)
(* strings, the other spellings int() accepts, names carrying the marker,  *)
(* and names that are text.                                                *)
(***************************************************************************)
Bank(k) == 1 + MergeOffset * k

BoneStr == <<"B", "o", "n", "e">>

PlainNames == {Str(Bank(k)) : k \in 0..MaxBank}

SpelledNames ==
    {<<"0">> \o Str(1), <<"+">> \o Str(1), <<" ">> \o Str(1), Str(1) \o <<" ">>,
     Str(0 - 1), <<"0", "_">> \o Str(1)}

MarkedNames == {CheckStr \o s : s \in {Str(1), <<"+">> \o Str(1), BoneStr, <<>>}}

GroupNames == PlainNames \cup SpelledNames \cup MarkedNames \cup {BoneStr}

\* the lists of at most n elements of S
RECURSIVE Lists(_, _)
Lists(n, S) ==
    IF n = 0 THEN {<<>>}
    ELSE LET shorter == Lists(n - 1, S)
         IN  shorter \cup
             {Append(l, x) : l \in {m \in shorter : Len(m) = n - 1}, x \in S}

DistinctNames(l) == \A i, j \in 1..Len(l) : i # j => l[i] # l[j]

\* vertex groups with the names of l, in that order
Groups(l) == [p \in 1..Len(l) |-> [name |-> l[p], ref |-> p]]

ObjectName(k) == ComponentStr \o <<" ">> \o Str(k)

VgMaps == {{Bank(0)}, {Bank(0), Bank(1)}, {Bank(MaxBank)}}

Component(m) == [has_vg_map |-> TRUE, vg_map |-> m]

\* the lists of at most n components, each with a vg_map of S
ComponentLists(n, S) == Lists(n, {Component(m) : m \in S})

Document(components) ==
    [path_set |-> TRUE, is_file |-> TRUE, json |-> "object",
     has_components |-> TRUE, components |-> components]

Versions == {"v1.0.0", "v1.1.0"}

(***************************************************************************)
(* Spec: one mesh object "Component 0"; either its groups are drawn from   *)
(* all the names, under the documents of NameDocuments, or it has one      *)
(* group with a plain name, under every list of components.                *)
(***************************************************************************)
NameDocuments ==
    {Document(<<Component({Bank(0)})>>),
     Document(<<Component({Bank(MaxBank)})>>),
     Document(<<Component({Bank(0), Bank(1)})>>),
     Document(<<Component({Bank(0)}), Component({Bank(MaxBank)})>>),
     Document(<<Component({Bank(MaxBank)}), Component({Bank(MaxBank)}),
                Component({Bank(MaxBank)}), Component({Bank(0), Bank(1)})>>)}

MeshObject(name, l, vs) ==
    [type |-> "MESH", name |-> name, vertex_groups |-> Groups(l), vertices |-> vs]

InitNames ==
    /\ metadata \in NameDocuments
    /\ \E l \in Lists(MaxGroups, GroupNames) :
           DistinctNames(l) /\ objects = <<MeshObject(ObjectName(0), l, <<>>)>>

InitComponents ==
    /\ \E c \in ComponentLists(MaxComponents, VgMaps) :
           c # <<>> /\ metadata = Document(c)
    /\ \E n \in PlainNames \cup {BoneStr} :
           objects = <<MeshObject(ObjectName(0), <<n>>, <<>>)>>

Init ==
    /\ version \in Versions
    /\ remove_zero = FALSE
    /\ InitNames \/ InitComponents
    /\ log = <<>>

Spec == Init /\ [][Next]_vars

(***************************************************************************)
(* SpecSweep: one mesh object "Component 0" with several groups and        *)
(* vertices, the sweep enabled or not.                                     *)
(***************************************************************************)
SweepNames == {Str(Bank(0)), Str(Bank(MaxBank)), BoneStr}

SweepDocuments ==
    {Document(<<Component({Bank(MaxBank)})>>),
     Document(<<Component({Bank(0)}), Component({Bank(MaxBank)})>>)}

\* the memberships one vertex may have in g groups: at most one per group
Memberships(g) ==
    {m \in SUBSET [group : 0..(g - 1), weight : {0, 1}] :
         \A a, b \in m : a.group = b.group => a = b}

InitSweep ==
    /\ version \in Versions
    /\ remove_zero \in BOOLEAN
    /\ metadata \in SweepDocuments
    /\ \E l \in Lists(MaxGroups, SweepNames) :
           /\ DistinctNames(l)
           /\ \E vs \in Lists(MaxVertices, Memberships(Len(l))) :
                  objects = <<MeshObject(ObjectName(0), l, vs)>>
    /\ log = <<>>

SpecSweep == InitSweep /\ [][Next]_vars

(***************************************************************************)
(* SpecMeta: several selected objects under metadata that cannot be used   *)
(* or that holds a component with an empty vg_map.                         *)
(***************************************************************************)
BodyStr == <<"B", "o", "d", "y">>

ObjectNames ==
    {ObjectName(0), ComponentStr \o Str(1), ObjectName(10 + MaxMetaComponents),
     BodyStr, ComponentStr}

SelectedObjects ==
    {MeshObject(n, <<Str(Bank(0))>>, <<>>) : n \in ObjectNames}
    \cup {[type |-> "EMPTY", name |-> ObjectName(0), vertex_groups |-> <<>>,
           vertices |-> <<>>]}

UnusableDocuments ==
    {[Document(<<Component({Bank(0)})>>) EXCEPT !.path_set = FALSE, !.is_file = FALSE],
     [Document(<<Component({Bank(0)})>>) EXCEPT !.is_file = FALSE],
     [Document(<<>>) EXCEPT !.json = "malformed", !.has_components = FALSE],
     [Document(<<>>) EXCEPT !.json = "array", !.has_components = FALSE],
     [Document(<<>>) EXCEPT !.has_components = FALSE],
     Document(<<>>),
     Document(<<Component({})>>),
     Document(<<Component({Bank(0)}), [has_vg_map |-> FALSE, vg_map |-> {}]>>)}

MetaDocuments ==
    UnusableDocuments
    \cup {Document(c) :
              c \in ComponentLists(MaxMetaComponents, {{}, {Bank(0)}, {Bank(MaxBank)}})}

InitMeta ==
    /\ version \in Versions
    /\ remove_zero \in BOOLEAN
    /\ metadata \in MetaDocuments
    /\ objects \in Lists(MaxObjects, SelectedObjects)
    /\ log = <<>>

SpecMeta == InitMeta /\ [][Next]_vars

(***************************************************************************)
(* SpecScenario: the components [{0, 1}, {256, 257}] and one mesh object   *)
(* "Component 1" whose groups are drawn from the scenario's names.         *)
(***************************************************************************)
ScenarioDocument == Document(<<Component({0, 1}), Component({256, 257})>>)

ScenarioGroups == <<Str(257), Str(258), Str(5)>>

ScenarioNames ==
    {ScenarioGroups[i] : i \in 1..Len(ScenarioGroups)}
    \cup {CheckStr \o Str(257), Str(0), Str(1)}

InitScenario ==
    /\ version \in Versions
    /\ remove_zero = FALSE
    /\ metadata = ScenarioDocument
    /\ \E l \in Lists(Len(ScenarioGroups), ScenarioNames) :
           /\ DistinctNames(l)
           /\ objects = <<MeshObject(ObjectName(1), l, <<>>)>>
    /\ log = <<>>

SpecScenario == InitScenario /\ [][Next]_vars

(***************************************************************************)
(* SpecStrip: several selected objects whose groups carry, or do not       *)
(* carry, the marker.                                                      *)
(***************************************************************************)
StripGroupLists ==
    {<<CheckStr \o Str(1)>>, <<CheckStr \o BoneStr>>, <<CheckStr>>,
     <<CheckStr \o <<"+">> \o Str(1)>>, <<CheckStr \o <<"0">> \o Str(1)>>,
     <<CheckStr \o CheckStr \o Str(1)>>, <<Str(1)>>,
     <<CheckStr \o Str(1), BoneStr>>, <<>>}

StripObjects ==
    {MeshObject(ObjectName(0), l, <<>>) : l \in StripGroupLists}
    \cup {[type |-> "LATTICE", name |-> ObjectName(0),
           vertex_groups |-> Groups(<<CheckStr \o Str(1)>>), vertices |-> <<>>]}

InitStrip ==
    /\ version \in Versions
    /\ remove_zero = FALSE
    /\ metadata = Document(<<Component({Bank(0), Bank(1)})>>)
    /\ objects \in Lists(MaxObjects, StripObjects)
    /\ log = <<>>

SpecStrip == InitStrip /\ [][Next]_vars

(***************************************************************************)
(* The terms of the properties.  Invocation k is log[k]; the objects       *)
(* before it are log[k].before, the objects after it are those before      *)
(* invocation k + 1, or the current ones.                                  *)
(***************************************************************************)
IsAutoFix(k) == k \in 1..Len(log) /\ log[k].op = "auto_fix"

IsRemoveCheck(k) == k \in 1..Len(log) /\ log[k].op = "remove_check"

Before(k) == log[k].before

After(k) == IF k = Len(log) THEN objects ELSE log[k + 1].before

Names(obj) == [p \in 1..Len(obj.vertex_groups) |-> obj.vertex_groups[p].name]

Refs(obj) == [p \in 1..Len(obj.vertex_groups) |-> obj.vertex_groups[p].ref]

HasRef(obj, r) == \E p \in 1..Len(obj.vertex_groups) : obj.vertex_groups[p].ref = r

NameOfRef(obj, r) ==
    obj.vertex_groups[CHOOSE p \in 1..Len(obj.vertex_groups) :
                          obj.vertex_groups[p].ref = r].name

\* MergedMaxVG, Threshold, the exception sets and ComponentMaxVG as the
\* specification defines them
MergedMaxVG ==
    CHOOSE m \in UNION {metadata.components[i].vg_map :
                            i \in 1..Len(metadata.components)} :
        \A i \in 1..Len(metadata.components) :
            \A v \in metadata.components[i].vg_map : v <= m

Threshold == MergedMaxVG - 256

LocalSet(obj) == metadata.components[ComponentId(obj.name) + 1].vg_map

GlobalSet ==
    IF version = "v1.1.0"
    THEN UNION {metadata.components[i].vg_map :
                    i \in {k \in 1..Len(metadata.components) : k >= 4}}
    ELSE {}

ExceptionIndex(obj, n) == n \in LocalSet(obj) \/ n \in GlobalSet

ComponentMaxVG(obj) ==
    CHOOSE m \in LocalSet(obj) : \A v \in LocalSet(obj) : v <= m

\* the per-object issues: no "Component <digits>" token, id out of range,
\* empty vg_map
HasIssue(obj) ==
    \/ ~ComponentSearch(obj.name)
    \/ ComponentId(obj.name) >= Len(metadata.components)
    \/ metadata.components[ComponentId(obj.name) + 1].vg_map = {}

\* the metadata cannot be used by Auto-Fix
Unusable ==
    \/ ~metadata.path_set
    \/ ~metadata.is_file
    \/ metadata.json = "malformed"
    \/ /\ metadata.json = "object"
       /\ \/ ~metadata.has_components
          \/ metadata.components = <<>>
          \/ /\ \A i \in 1..Len(metadata.components) :
                    metadata.components[i].has_vg_map
             /\ UNION {metadata.components[i].vg_map :
                           i \in 1..Len(metadata.components)} = {}

Usable == Load(version, metadata) = "OK"

(***************************************************************************)
(* C1.                                                                     *)
(***************************************************************************)
ScenarioRun(k) ==
    /\ IsAutoFix(k)
    /\ ~remove_zero
    /\ metadata = ScenarioDocument
    /\ Len(Before(k)) = 1
    /\ Before(k)[1].name = ObjectName(1)
    /\ Names(Before(k)[1]) = ScenarioGroups

\* C1 as stated: in the scenario (components [{0, 1}, {256, 257}], object
\* "Component 1", groups "257", "258", "5", remove-zero off) Auto-Fix leaves
\* the names "Check257", "258", "5", and Remove-Check-Prefix run on that
\* result gives "257", "258", "5".
C1_ScenarioAsStated ==
    \A k \in 1..Len(log) :
        ScenarioRun(k) =>
            /\ Names(After(k)[1]) = <<CheckStr \o Str(257), Str(258), Str(5)>>
            /\ IsRemoveCheck(k + 1) =>
                   Names(After(k + 1)[1]) = <<Str(257), Str(258), Str(5)>>

\* C1 amended: in the scenario Threshold is 1 and 257 > 1, so Auto-Fix
\* reports one processed object and leaves the names "257", "258", "5";
\* Remove-Check-Prefix run on that result changes nothing and reports 0.
C1_Scenario ==
    \A k \in 1..Len(log) :
        ScenarioRun(k) =>
            /\ log[k].status = "FINISHED"
            /\ log[k].count = 1
            /\ Threshold = 1
            /\ Names(After(k)[1]) = <<Str(257), Str(258), Str(5)>>
            /\ IsRemoveCheck(k + 1) =>
                   /\ Names(After(k + 1)[1]) = <<Str(257), Str(258), Str(5)>>
                   /\ log[k + 1].count = 0

C1_Witness ==
    /\ Len(log) = 2
    /\ ScenarioRun(1)
    /\ IsRemoveCheck(2)
    /\ Names(objects[1]) = <<Str(257), Str(258), Str(5)>>

(***************************************************************************)
(* C2.                                                                     *)
(***************************************************************************)
\* C2: whenever the metadata cannot be used (path unset, file missing,
\* malformed JSON, 'components' missing or empty, no vg_map value), an
\* Auto-Fix invocation is cancelled with an error report and changes no
\* object, in v1.0.0 and in v1.1.0.
C2_UnusableMetadataCancels ==
    \A k \in 1..Len(log) :
        (IsAutoFix(k) /\ Unusable) =>
            /\ log[k].status = "CANCELLED"
            /\ log[k].report = "ERROR"
            /\ After(k) = Before(k)

(***************************************************************************)
(* C3.                                                                     *)
(***************************************************************************)
\* C3: in an Auto-Fix run whose metadata loaded, a selected mesh object with
\* a per-object issue is left as it was and is not counted, every mesh
\* object without an issue is processed and counted, and the run finishes.
C3_IssueSkippedRunContinues ==
    \A k \in 1..Len(log) :
        (IsAutoFix(k) /\ Usable) =>
            /\ log[k].status = "FINISHED"
            /\ \A i \in 1..Len(Before(k)) :
                   LET obj == Before(k)[i]
                   IN  IF obj.type # "MESH" THEN After(k)[i] = obj
                       ELSE IF HasIssue(obj)
                       THEN After(k)[i] = obj /\ i \notin log[k].processed
                       ELSE /\ i \in log[k].processed
                            /\ After(k)[i] =
                                   FixObject(version, obj, metadata.components,
                                             remove_zero)
            /\ log[k].count =
                   Cardinality({i \in 1..Len(Before(k)) :
                                    /\ Before(k)[i].type = "MESH"
                                    /\ ~HasIssue(Before(k)[i])})

(***************************************************************************)
(* C4.                                                                     *)
(***************************************************************************)
\* a group of obj that Auto-Fix must mark: numeric, within the threshold,
\* an exception index, on an object whose ComponentMaxVG is at least 256
MustMark(obj, g) ==
    /\ IsIntLiteral(g.name)
    /\ IntValue(g.name) <= Threshold
    /\ ExceptionIndex(obj, IntValue(g.name))
    /\ ComponentMaxVG(obj) >= 256

\* C4: after k >= 1 consecutive Auto-Fix runs with the same metadata, a
\* group of a processed object whose numeric name n is an exception index
\* with n <= Threshold, on an object with ComponentMaxVG >= 256, is named
\* "Check" followed by its name before the first run: "Check<n>", the marker
\* once.
C4_MarkedOnce ==
    \A k \in 1..Len(log) :
        ((\A j \in 1..k : IsAutoFix(j)) /\ Usable) =>
            \A i \in log[1].processed :
                \A p \in 1..Len(Before(1)[i].vertex_groups) :
                    LET g == Before(1)[i].vertex_groups[p]
                    IN  (MustMark(Before(1)[i], g) /\ HasRef(After(k)[i], g.ref)) =>
                            NameOfRef(After(k)[i], g.ref) = CheckStr \o g.name

C4_Witness ==
    /\ Len(log) = 2
    /\ IsAutoFix(1)
    /\ IsAutoFix(2)
    /\ version = "v1.1.0"
    /\ 1 \in log[1].processed
    /\ \E p \in 1..Len(Before(1)[1].vertex_groups) :
           LET g == Before(1)[1].vertex_groups[p]
           IN  /\ MustMark(Before(1)[1], g)
               /\ IntValue(g.name) \notin LocalSet(Before(1)[1])
               /\ NameOfRef(objects[1], g.ref) = CheckStr \o Str(IntValue(g.name))

(***************************************************************************)
(* C5.                                                                     *)
(***************************************************************************)
\* a group of obj that is ordinary: numeric, within the threshold, not an
\* exception index
Ordinary(obj, g) ==
    /\ IsIntLiteral(g.name)
    /\ IntValue(g.name) <= Threshold
    /\ ~ExceptionIndex(obj, IntValue(g.name))

\* C5: one Auto-Fix run names every ordinary group of a processed object
\* (numeric name n <= Threshold = MergedMaxVG - 256, n not an exception
\* index) with the decimal string of n + 256.
C5_OrdinaryOffset ==
    \A k \in 1..Len(log) :
        (IsAutoFix(k) /\ Usable) =>
            \A i \in log[k].processed :
                \A p \in 1..Len(Before(k)[i].vertex_groups) :
                    LET g == Before(k)[i].vertex_groups[p]
                    IN  (Ordinary(Before(k)[i], g) /\ HasRef(After(k)[i], g.ref)) =>
                            NameOfRef(After(k)[i], g.ref) = Str(IntValue(g.name) + 256)

C5_Witness ==
    /\ Len(log) = 1
    /\ IsAutoFix(1)
    /\ 1 \in log[1].processed
    /\ \E p \in 1..Len(Before(1)[1].vertex_groups) :
           LET g == Before(1)[1].vertex_groups[p]
           IN  /\ Ordinary(Before(1)[1], g)
               /\ g.name # Str(IntValue(g.name))
               /\ NameOfRef(objects[1], g.ref) = Str(IntValue(g.name) + 256)

(***************************************************************************)
(* C8.                                                                     *)
(***************************************************************************)
\* C8: Remove-Check-Prefix run after an Auto-Fix run gives every group that
\* the Auto-Fix run marked its name of before that run, character for
\* character, and leaves a group that Auto-Fix renamed by the offset as
\* Auto-Fix named it.
C8_LeftInverse ==
    \A k \in 1..Len(log) :
        (IsAutoFix(k) /\ IsRemoveCheck(k + 1)) =>
            \A i \in 1..Len(Before(k)) :
                \A p \in 1..Len(Before(k)[i].vertex_groups) :
                    LET g     == Before(k)[i].vertex_groups[p]
                        fixed == NameOfRef(After(k)[i], g.ref)
                        final == NameOfRef(After(k + 1)[i], g.ref)
                    IN  HasRef(After(k)[i], g.ref) =>
                            /\ (fixed # g.name /\ fixed = CheckStr \o g.name) =>
                                   final = g.name
                            /\ (fixed # g.name /\ fixed # CheckStr \o g.name) =>
                                   final = fixed

(***************************************************************************)
(* C10.                                                                    *)
(***************************************************************************)
\* C10: after two consecutive Auto-Fix runs with the same metadata, an
\* ordinary group with numeric name n <= Threshold is named n + 512 whenever
\* n + 256 <= Threshold and n + 256 is not an exception index; it is named
\* n + 256 exactly when n + 256 > Threshold or n + 256 is an exception index
\* on an object with ComponentMaxVG < 256.
C10_DoubleOffset ==
    \A k \in 1..Len(log) :
        (IsAutoFix(k) /\ IsAutoFix(k + 1) /\ Usable) =>
            \A i \in log[k].processed \cap log[k + 1].processed :
                \A p \in 1..Len(Before(k)[i].vertex_groups) :
                    LET obj   == Before(k)[i]
                        g     == obj.vertex_groups[p]
                        m     == IntValue(g.name) + 256
                        final == NameOfRef(After(k + 1)[i], g.ref)
                        stays == \/ m > Threshold
                                 \/ ExceptionIndex(obj, m) /\ ComponentMaxVG(obj) < 256
                    IN  (Ordinary(obj, g) /\ HasRef(After(k + 1)[i], g.ref)) =>
                            /\ (m <= Threshold /\ ~ExceptionIndex(obj, m)) =>
                                   final = Str(m + 256)
                            /\ final = Str(m) <=> stays

C10_Witness ==
    /\ Len(log) = 2
    /\ IsAutoFix(1)
    /\ IsAutoFix(2)
    /\ 1 \in log[1].processed \cap log[2].processed
    /\ \E p \in 1..Len(Before(1)[1].vertex_groups) :
           LET g == Before(1)[1].vertex_groups[p]
           IN  /\ Ordinary(Before(1)[1], g)
               /\ IntValue(g.name) + 256 <= Threshold
               /\ NameOfRef(objects[1], g.ref) = Str(IntValue(g.name) + 512)

(***************************************************************************)
(* C6.                                                                     *)
(***************************************************************************)
\* a group of obj that Auto-Fix must keep: (a) not numeric, (b) numeric and
\* above the threshold, (c) an exception index within the threshold on an
\* object whose ComponentMaxVG is below 256
MustKeep(obj, g) ==
    \/ ~IsIntLiteral(g.name)
    \/ /\ IsIntLiteral(g.name)
       /\ Usable
       /\ \/ IntValue(g.name) > Threshold
          \/ /\ obj.type = "MESH"
             /\ ~HasIssue(obj)
             /\ ExceptionIndex(obj, IntValue(g.name))
             /\ ComponentMaxVG(obj) < 256

\* C6: an Auto-Fix run leaves the name of every group that is non-numeric,
\* or numeric above the threshold, or an exception index on an object with
\* ComponentMaxVG < 256; with remove-zero disabled it leaves the number and
\* the order of every object's groups.
C6_KeptNamesAndOrder ==
    \A k \in 1..Len(log) :
        IsAutoFix(k) =>
            \A i \in 1..Len(Before(k)) :
                /\ ~remove_zero => Refs(After(k)[i]) = Refs(Before(k)[i])
                /\ \A p \in 1..Len(Before(k)[i].vertex_groups) :
                       LET g == Before(k)[i].vertex_groups[p]
                       IN  (MustKeep(Before(k)[i], g) /\ HasRef(After(k)[i], g.ref)) =>
                               NameOfRef(After(k)[i], g.ref) = g.name

C6_Witness ==
    /\ Len(log) = 1
    /\ IsAutoFix(1)
    /\ ~remove_zero
    /\ 1 \in log[1].processed
    /\ Len(Before(1)[1].vertex_groups) = 2
    /\ Refs(objects[1]) = Refs(Before(1)[1])
    /\ LET obj == Before(1)[1]
       IN  /\ IsIntLiteral(obj.vertex_groups[1].name)
           /\ IntValue(obj.vertex_groups[1].name) <= Threshold
           /\ ExceptionIndex(obj, IntValue(obj.vertex_groups[1].name))
           /\ ComponentMaxVG(obj) < 256
           /\ ~IsIntLiteral(obj.vertex_groups[2].name)
           /\ Names(objects[1]) = Names(obj)

(***************************************************************************)
(* C7.                                                                     *)
(***************************************************************************)
\* the whole name is "Check" followed by one or more digits
CheckThenDigits(name) ==
    \E d \in 1..Len(name) :
        /\ Len(name) = 5 + d
        /\ name = <<"C", "h", "e", "c", "k">> \o SubSeq(name, 6, 5 + d)
        /\ \A j \in 6..(5 + d) : name[j] \in Digit

\* C7: Remove-Check-Prefix renames exactly the groups of selected mesh
\* objects whose whole name is "Check" followed by digits, to those digits,
\* reports the number of objects with at least one such group, and a second
\* consecutive application changes nothing and reports 0.
C7_StripExactAndIdempotent ==
    \A k \in 1..Len(log) :
        IsRemoveCheck(k) =>
            /\ log[k].status = "FINISHED"
            /\ \A i \in 1..Len(Before(k)) :
                   /\ Refs(After(k)[i]) = Refs(Before(k)[i])
                   /\ \A p \in 1..Len(Before(k)[i].vertex_groups) :
                          LET name == Before(k)[i].vertex_groups[p].name
                          IN  After(k)[i].vertex_groups[p].name =
                                  IF Before(k)[i].type = "MESH" /\ CheckThenDigits(name)
                                  THEN SubSeq(name, 6, Len(name))
                                  ELSE name
            /\ log[k].count =
                   Cardinality({i \in 1..Len(Before(k)) :
                       /\ Before(k)[i].type = "MESH"
                       /\ \E p \in 1..Len(Before(k)[i].vertex_groups) :
                              CheckThenDigits(Before(k)[i].vertex_groups[p].name)})
            /\ IsRemoveCheck(k + 1) =>
                   After(k + 1) = After(k) /\ log[k + 1].count = 0

C7_Witness ==
    /\ Len(log) = 2
    /\ IsRemoveCheck(1)
    /\ IsRemoveCheck(2)
    /\ log[1].count = 1
    /\ log[2].count = 0
    /\ Len(objects) = 2
    /\ \E i \in 1..2 :
           /\ Names(Before(1)[i]) = <<CheckStr \o Str(1), BoneStr>>
           /\ Names(objects[i]) = <<Str(1), BoneStr>>

(***************************************************************************)
(* C9.                                                                     *)
(***************************************************************************)
\* the group indices that some vertex of obj lists, whatever the weight
ListedIndices(obj) ==
    {m.group : m \in UNION {obj.vertices[v] : v \in 1..Len(obj.vertices)}}

\* the elements of seq at the positions in P, in their order
RECURSIVE AtPositions(_, _, _)
AtPositions(seq, P, p) ==
    IF p > Len(seq) THEN <<>>
    ELSE (IF p \in P THEN <<seq[p]>> ELSE <<>>) \o AtPositions(seq, P, p + 1)

\* C9: an Auto-Fix run with remove-zero enabled leaves on every processed
\* object exactly the groups that some vertex listed before the run, a
\* membership of weight 0 included, in their order, under the names the
\* renaming gave them.
C9_SweepKeepsListedGroups ==
    \A k \in 1..Len(log) :
        (IsAutoFix(k) /\ remove_zero) =>
            \A i \in log[k].processed :
                LET obj  == Before(k)[i]
                    kept == {p \in 1..Len(obj.vertex_groups) :
                                 p - 1 \in ListedIndices(obj)}
                IN  /\ Refs(After(k)[i]) = AtPositions(Refs(obj), kept, 1)
                    /\ Names(After(k)[i]) =
                           AtPositions(Names(FixObject(version, obj, metadata.components,
                                                       FALSE)), kept, 1)

C9_Witness ==
    /\ Len(log) = 1
    /\ IsAutoFix(1)
    /\ remove_zero
    /\ 1 \in log[1].processed
    /\ Len(Before(1)[1].vertex_groups) = 2
    /\ Before(1)[1].vertices = <<{[group |-> 1, weight |-> 0]}>>
    /\ Refs(objects[1]) = <<2>>
    /\ objects[1].vertices = <<{[group |-> 0, weight |-> 0]}>>

====
